---- MODULE Spec2Model ----
(***************************************************************************)
(* ParkEase reservation / payment reconciliation engine.                   *)
(*                                                                         *)
(* State: the Booking collection (booking.model.js), the slot statuses and *)
(* the facility document of one parking (parking model), the cache entry of *)
(* that facility with its lifetime, the state of the redis client, the gateway's *)
(* order counter, the wall clock, the create-booking requests in flight and *)
(* the response of the last handler that ran.                              *)
(*                                                                         *)
(* Time is counted in half hours (Hour = 2 units).  A booking's _id is its  *)
(* index in the collection (insertion order, which is also the order in     *)
(* which findOne scans).  The payment sub-record holds the fields the       *)
(* controllers read and write.                                             *)
(***************************************************************************)
EXTENDS Integers, Sequences, FiniteSets, TLC

VARIABLES bookings, slotStatus, parking, cache, expiry, redis, nextOrder, now, req, resp

vars == <<bookings, slotStatus, parking, cache, expiry, redis, nextOrder, now, req, resp>>

----------------------------------------------------------------------------
(* Bounds of the model *)

NumSlots == 2
MaxBookings == 2
MaxPaid == 1
MaxTime == 4
MaxOrders == 2
MaxPayments == 2
MaxStart == 4

(* 1000 * 60 * 60 ms, in model time units *)
Hour == 2

Slots == 1..NumSlots
Times == 0..MaxTime
BookingIds == 1..MaxBookings
OrderIds == 1..MaxOrders
PaymentIds == 1..MaxPayments
Procs == 1..2

NoId == 0
NoTime == -1
NoEntry == -1
NoExpiry == 0

----------------------------------------------------------------------------
(* Schemas *)

BookingStatusEnum == {"pending", "confirmed", "cancelled", "completed", "no-show"}

PaymentStatusEnum == {"pending", "completed", "failed", "refunded", "partially_refunded"}

SlotStatusEnum == {"available", "occupied", "reserved", "maintenance"}

(* every status a request may name, valid or not *)
RequestedStatuses == BookingStatusEnum \cup {"refunded"}

ErrorDescriptions == {"", "card_declined"}

KeySecret == "RAZORPAY_KEY_SECRET"
WebhookSecret == "RAZORPAY_WEBHOOK_SECRET"
Secrets == {KeySecret, WebhookSecret}

(* the digest computed without the secret *)
HmacKeyless(secret, text) == <<KeySecret, text>>

(* crypto.createHmac('sha256', secret).update(text).digest('hex'): equal    *)
(* digests exactly for equal secret and text                                *)
Hmac(secret, text) == <<secret, text>>

(* the validator with an empty window let through *)
endTimeValidatorInclusive(startTime, endTime) == endTime >= startTime

(* endTime validator *)
endTimeValidator(startTime, endTime) == endTime > startTime

(* the payment sub-record of a new booking *)
NewPayment ==
  [status |-> "pending", orderId |-> NoId, paymentId |-> NoId, paidAt |-> NoTime,
   failedAt |-> NoTime, error |-> "", refundStatus |-> ""]

(* the slots' prices, as the facility of the booking tests sets them *)
pricePerHour(slotId) == IF slotId = 1 THEN 50 ELSE 30

(* calculateDuration with the length rounded up once more when it is whole *)
calculateDurationOver(b) ==
  LET durationMs == b.endTime - b.startTime
  IN  durationMs \div Hour + 1

(* Math.ceil(durationMs / Hour) *)
calculateDuration(b) ==
  LET durationMs == b.endTime - b.startTime
  IN  (durationMs + Hour - 1) \div Hour

(* a new booking: pending, billed for its duration at the slot's price *)
NewBooking(slotId, startTime, endTime) ==
  LET window == [startTime |-> startTime, endTime |-> endTime]
  IN  [slot |-> slotId, startTime |-> startTime, endTime |-> endTime,
       status |-> "pending", payment |-> NewPayment,
       amount |-> pricePerHour(slotId) * calculateDuration(window)]

Exists(id) == id \in DOMAIN bookings

Idle ==
  [pc |-> "idle", slot |-> 0, startTime |-> 0, endTime |-> 0, avail |-> FALSE, code |-> 0,
   op |-> "", booking |-> NoId, order |-> NoId, paymentId |-> NoId, log |-> <<>>,
   read |-> <<>>]

Response(op, id, code, effects) == [op |-> op, id |-> id, code |-> code, effects |-> effects]

----------------------------------------------------------------------------
(* booking.model.js *)

(* the query without its status filter *)
conflictQueryAnyStatus(slotId, startTime, endTime, bookingId) ==
  { i \in DOMAIN bookings :
      /\ bookings[i].slot = slotId
      /\ \/ (bookings[i].startTime < endTime /\ bookings[i].endTime > startTime)
         \/ (bookings[i].startTime >= startTime /\ bookings[i].startTime < endTime)
      /\ (bookingId # NoId => i # bookingId) }

(* the documents isSlotAvailable's query finds *)
conflictQuery(slotId, startTime, endTime, bookingId) ==
  { i \in DOMAIN bookings :
      /\ bookings[i].slot = slotId
      /\ bookings[i].status \in {"pending", "confirmed"}
      /\ \/ (bookings[i].startTime < endTime /\ bookings[i].endTime > startTime)
         \/ (bookings[i].startTime >= startTime /\ bookings[i].startTime < endTime)
      /\ (bookingId # NoId => i # bookingId) }

(* the query with its status filter reduced to confirmed bookings *)
isSlotAvailableConfirmedOnly(slotId, startTime, endTime, bookingId) ==
  { i \in conflictQuery(slotId, startTime, endTime, bookingId) :
      bookings[i].status = "confirmed" } = {}

(* the query with $lte and $gte in place of $lt and $gt *)
isSlotAvailableInclusive(slotId, startTime, endTime, bookingId) ==
  { i \in DOMAIN bookings :
      /\ bookings[i].slot = slotId
      /\ bookings[i].status \in {"pending", "confirmed"}
      /\ \/ (bookings[i].startTime <= endTime /\ bookings[i].endTime >= startTime)
         \/ (bookings[i].startTime >= startTime /\ bookings[i].startTime <= endTime)
      /\ (bookingId # NoId => i # bookingId) } = {}

isSlotAvailable(slotId, startTime, endTime, bookingId) ==
  conflictQuery(slotId, startTime, endTime, bookingId) = {}

(* canBeCancelled with hoursUntilStart >= 1 *)
canBeCancelledInclusive(b) ==
  b.status = "confirmed" /\ (b.startTime - now) >= 1 * Hour

(* hoursUntilStart > 1, with hoursUntilStart = (startTime - now) / Hour *)
canBeCancelled(b) ==
  b.status = "confirmed" /\ (b.startTime - now) > 1 * Hour

----------------------------------------------------------------------------
(* Collaborators *)

(* Model.findOne(filter): the first document, in insertion order, that      *)
(* matches; NoId when none does                                             *)
findByOrderId(orderId) ==
  LET found == { i \in DOMAIN bookings : bookings[i].payment.orderId = orderId }
  IN  IF found = {} THEN NoId ELSE CHOOSE i \in found : \A j \in found : i <= j

findByPaymentId(paymentId) ==
  LET found == { i \in DOMAIN bookings : bookings[i].payment.paymentId = paymentId }
  IN  IF found = {} THEN NoId ELSE CHOOSE i \in found : \A j \in found : i <= j

(* redisClient.del(key): the entry after the call; a rejected del leaves it *)
redisDel == IF redis = "ok" THEN NoEntry ELSE cache

(* the expiry of the entry after the call *)
redisDelExpiry == IF redis = "ok" THEN NoExpiry ELSE expiry

(* the set call without its expiry arguments *)
setOptionsNone == <<>>

(* the arguments of redisClient.set after key and value *)
setOptions == <<"EX", 60>>

(* the lifetime in seconds that the arguments of a set give the entry *)
expiryOf(options) ==
  IF Len(options) = 2 /\ options[1] = "EX" THEN options[2] ELSE NoExpiry

(* seconds in one unit of the clock *)
UnitSeconds == 3600 \div Hour

(* the side effects of the cache invalidation, as the handler's log shows them *)
delEffects == IF redis = "ok" THEN <<"cache.del">> ELSE <<"redis.error">>

(* slots counted by the availability snapshot *)
countAvailable(statuses) ==
  Cardinality({ s \in Slots : statuses[s] = "available" \/ statuses[s] = "reserved" })

(* pending or confirmed bookings of a slot in a collection *)
ActiveOn(coll, slotId) ==
  { i \in DOMAIN coll : coll[i].slot = slotId /\ coll[i].status \in {"pending", "confirmed"} }

----------------------------------------------------------------------------
(* payment.controller.js *)

(* booking.save() after booking.payment = {orderId, status, amount, currency}: *)
(* the schema declares no payment.orderId and requires payment.method, so    *)
(* the store keeps the assigned sub-record, keeps it without the undeclared  *)
(* paths, or rejects the document                                            *)
SaveOutcomes == {"kept", "dropped", "rejected"}

createPaymentOrder(bookingId, authorized, gatewayOk, saved) ==
  /\ IF ~Exists(bookingId)
       THEN /\ resp' = Response("createOrder", bookingId, 404, <<>>)
            /\ UNCHANGED <<bookings, nextOrder>>
     ELSE IF ~authorized
       THEN /\ resp' = Response("createOrder", bookingId, 403, <<>>)
            /\ UNCHANGED <<bookings, nextOrder>>
     ELSE IF bookings[bookingId].status # "pending"
       THEN /\ resp' = Response("createOrder", bookingId, 400, <<>>)
            /\ UNCHANGED <<bookings, nextOrder>>
     ELSE IF ~gatewayOk
       THEN /\ resp' = Response("createOrder", bookingId, 500, <<>>)
            /\ UNCHANGED <<bookings, nextOrder>>
     ELSE IF saved = "rejected"
       THEN /\ nextOrder' = nextOrder + 1
            /\ resp' = Response("createOrder", bookingId, 500, <<"gateway.order">>)
            /\ UNCHANGED bookings
     ELSE /\ bookings' = [bookings EXCEPT ![bookingId].payment =
                            [NewPayment EXCEPT
                               !.orderId = IF saved = "kept" THEN nextOrder ELSE NoId,
                               !.status = "pending"]]
          /\ nextOrder' = nextOrder + 1
          /\ resp' = Response("createOrder", bookingId, 200, <<"gateway.order", "booking.save">>)
  /\ UNCHANGED <<slotStatus, cache, expiry, redis, now, req, parking>>

(* verifyPayment without the assignment of booking.payment.paymentId *)
verifyPaymentStatusOnly(bookingId, orderId, paymentId, signature, authorized) ==
  /\ IF ~Exists(bookingId)
       THEN /\ resp' = Response("verify", bookingId, 404, <<>>)
            /\ UNCHANGED <<bookings, slotStatus, cache, expiry>>
     ELSE IF ~authorized
       THEN /\ resp' = Response("verify", bookingId, 403, <<>>)
            /\ UNCHANGED <<bookings, slotStatus, cache, expiry>>
     ELSE IF Hmac(KeySecret, <<orderId, paymentId>>) # signature
       THEN /\ resp' = Response("verify", bookingId, 400, <<>>)
            /\ UNCHANGED <<bookings, slotStatus, cache, expiry>>
     ELSE /\ bookings' = [bookings EXCEPT ![bookingId].status = "confirmed",
                                          ![bookingId].payment.status = "completed",
                                          ![bookingId].payment.paidAt = now]
          /\ slotStatus' = [slotStatus EXCEPT ![bookings[bookingId].slot] = "reserved"]
          /\ IF redis = "uninit"
               THEN /\ UNCHANGED <<cache, expiry>>
                    /\ resp' = Response("verify", bookingId, 500, <<"booking.save", "slot.update">>)
               ELSE /\ cache' = redisDel
                    /\ expiry' = redisDelExpiry
                    /\ resp' = Response("verify", bookingId, 200,
                                        <<"booking.save", "slot.update">> \o delEffects)
  /\ UNCHANGED <<redis, nextOrder, now, req, parking>>

verifyPayment(bookingId, orderId, paymentId, signature, authorized) ==
  /\ IF ~Exists(bookingId)
       THEN /\ resp' = Response("verify", bookingId, 404, <<>>)
            /\ UNCHANGED <<bookings, slotStatus, cache, expiry>>
     ELSE IF ~authorized
       THEN /\ resp' = Response("verify", bookingId, 403, <<>>)
            /\ UNCHANGED <<bookings, slotStatus, cache, expiry>>
     ELSE IF Hmac(KeySecret, <<orderId, paymentId>>) # signature
       THEN /\ resp' = Response("verify", bookingId, 400, <<>>)
            /\ UNCHANGED <<bookings, slotStatus, cache, expiry>>
     ELSE /\ bookings' = [bookings EXCEPT ![bookingId].status = "confirmed",
                                          ![bookingId].payment.status = "completed",
                                          ![bookingId].payment.paymentId = paymentId,
                                          ![bookingId].payment.paidAt = now]
          /\ slotStatus' = [slotStatus EXCEPT ![bookings[bookingId].slot] = "reserved"]
          /\ IF redis = "uninit"
               THEN /\ UNCHANGED <<cache, expiry>>
                    /\ resp' = Response("verify", bookingId, 500, <<"booking.save", "slot.update">>)
               ELSE /\ cache' = redisDel
                    /\ expiry' = redisDelExpiry
                    /\ resp' = Response("verify", bookingId, 200,
                                        <<"booking.save", "slot.update">> \o delEffects)
  /\ UNCHANGED <<redis, nextOrder, now, req, parking>>

handleSuccessfulPayment(payment) ==
  LET id == findByOrderId(payment.order_id)
  IN  IF id = NoId
        THEN /\ resp' = Response("payment.captured", NoId, 200, <<>>)
             /\ UNCHANGED <<bookings, slotStatus, cache, expiry>>
        ELSE /\ bookings' = [bookings EXCEPT ![id].payment.status = "completed",
                                             ![id].payment.paymentId = payment.id,
                                             ![id].payment.paidAt = payment.created_at,
                                             ![id].status = "confirmed"]
             /\ slotStatus' = [slotStatus EXCEPT ![bookings[id].slot] = "reserved"]
             /\ IF redis = "uninit"
                  THEN /\ UNCHANGED <<cache, expiry>>
                       /\ resp' = Response("payment.captured", id, 200,
                                           <<"booking.update", "slot.update", "error.logged">>)
                  ELSE /\ cache' = redisDel
                       /\ expiry' = redisDelExpiry
                       /\ resp' = Response("payment.captured", id, 200,
                                           <<"booking.update", "slot.update">> \o delEffects)

handleFailedPayment(payment) ==
  LET id == findByOrderId(payment.order_id)
  IN  /\ IF id = NoId
           THEN /\ resp' = Response("payment.failed", NoId, 200, <<>>)
                /\ UNCHANGED bookings
           ELSE /\ bookings' = [bookings EXCEPT
                       ![id].payment.status = "failed",
                       ![id].payment.failedAt = payment.created_at,
                       ![id].payment.error = IF payment.error_description # ""
                                               THEN payment.error_description
                                               ELSE "Payment failed",
                       ![id].status = "cancelled"]
                /\ resp' = Response("payment.failed", id, 200, <<"booking.update">>)
      /\ UNCHANGED <<slotStatus, cache, expiry>>

handleRefund(refund) ==
  LET id == findByPaymentId(refund.payment_id)
  IN  IF "refunded" \notin BookingStatusEnum
        THEN \* runValidators: the update is rejected, the error is logged
             /\ resp' = Response("refund.processed", NoId, 200, <<"error.logged">>)
             /\ UNCHANGED <<bookings, slotStatus, cache, expiry>>
      ELSE IF id = NoId
        THEN /\ resp' = Response("refund.processed", NoId, 200, <<>>)
             /\ UNCHANGED <<bookings, slotStatus, cache, expiry>>
        ELSE /\ bookings' = [bookings EXCEPT ![id].payment.refundStatus = refund.status,
                                             ![id].status = "refunded"]
             /\ slotStatus' = [slotStatus EXCEPT ![bookings[id].slot] = "available"]
             /\ IF redis = "uninit"
                  THEN /\ UNCHANGED <<cache, expiry>>
                       /\ resp' = Response("refund.processed", id, 200,
                                           <<"booking.update", "slot.update", "error.logged">>)
                  ELSE /\ cache' = redisDel
                       /\ expiry' = redisDelExpiry
                       /\ resp' = Response("refund.processed", id, 200,
                                           <<"booking.update", "slot.update">> \o delEffects)

(* the awaits of a payment transition with the cache delete issued first *)
transitionStepsDelFirst(op) ==
  IF op = "verify"
    THEN <<"cache.del", "booking.save", "slot.update">>
    ELSE <<"cache.del", "booking.update", "slot.update">>

(* the awaits of verifyPayment after its signature check, and those of       *)
(* handleSuccessfulPayment, in program order                                 *)
transitionSteps(op) ==
  IF op = "verify"
    THEN <<"booking.save", "slot.update", "cache.del">>
    ELSE <<"booking.update", "slot.update", "cache.del">>

(* booking.save() that stores the status alone *)
saveConfirmedStatusOnly(stored, read, paymentId, paidAt) ==
  [stored EXCEPT !.status = IF read.status # "confirmed" THEN "confirmed" ELSE @]

(* booking.save() in verifyPayment: the document was read earlier, and the   *)
(* paths whose assigned value differs from the value read are written        *)
saveConfirmed(stored, read, paymentId, paidAt) ==
  [stored EXCEPT
     !.status = IF read.status # "confirmed" THEN "confirmed" ELSE @,
     !.payment.status = IF read.payment.status # "completed" THEN "completed" ELSE @,
     !.payment.paymentId = IF read.payment.paymentId # paymentId THEN paymentId ELSE @,
     !.payment.paidAt = IF read.payment.paidAt # paidAt THEN paidAt ELSE @]

(* a verify request whose checks have passed, or a signed payment.captured   *)
(* delivery handed to its handler: nothing is written yet                    *)
acceptPayment(p, op, bookingId, orderId, paymentId) ==
  /\ req[p].pc = "idle"
  /\ op = "verify" => Exists(bookingId)
  /\ req' = [req EXCEPT ![p] =
       [Idle EXCEPT !.pc = "paying", !.op = op,
                    !.booking = IF op = "verify" THEN bookingId ELSE NoId,
                    !.order = orderId, !.paymentId = paymentId,
                    !.read = IF op = "verify" THEN <<bookings[bookingId]>> ELSE <<>>]]
  /\ UNCHANGED <<bookings, slotStatus, parking, cache, expiry, redis, nextOrder, now, resp>>

(* the next await of a payment transition in flight *)
paymentStep(p) ==
  /\ req[p].pc = "paying"
  /\ LET r == req[p]
         steps == transitionSteps(r.op)
         step == steps[Len(r.log) + 1]
         log == Append(r.log, step)
         id == IF step = "booking.update" THEN findByOrderId(r.order) ELSE r.booking
         pc == IF Len(log) = Len(steps) THEN "done" ELSE "paying"
         answer == IF Len(log) = Len(steps) THEN Response(r.op, id, 200, log) ELSE resp
     IN  CASE step = "booking.save" ->
                /\ bookings' = [bookings EXCEPT
                                  ![id] = saveConfirmed(@, r.read[1], r.paymentId, now)]
                /\ req' = [req EXCEPT ![p].log = log, ![p].pc = pc]
                /\ resp' = answer
                /\ UNCHANGED <<slotStatus, cache, expiry>>
           [] step = "booking.update" ->
                IF id = NoId
                  THEN /\ req' = [req EXCEPT ![p].pc = "done"]
                       /\ resp' = Response(r.op, NoId, 200, r.log)
                       /\ UNCHANGED <<bookings, slotStatus, cache, expiry>>
                  ELSE /\ bookings' = [bookings EXCEPT ![id].payment.status = "completed",
                                                       ![id].payment.paymentId = r.paymentId,
                                                       ![id].payment.paidAt = now,
                                                       ![id].status = "confirmed"]
                       /\ req' = [req EXCEPT ![p].log = log, ![p].pc = pc, ![p].booking = id]
                       /\ resp' = answer
                       /\ UNCHANGED <<slotStatus, cache, expiry>>
           [] step = "slot.update" ->
                /\ slotStatus' = [slotStatus EXCEPT ![bookings[id].slot] = "reserved"]
                /\ req' = [req EXCEPT ![p].log = log, ![p].pc = pc]
                /\ resp' = answer
                /\ UNCHANGED <<bookings, cache, expiry>>
           [] step = "cache.del" ->
                IF redis = "uninit" \/ (redis = "failing" /\ r.op # "verify")
                  THEN \* getRedisClient throws, or del rejects in the handler's
                       \* try block: the awaits that follow are skipped
                       /\ req' = [req EXCEPT ![p].pc = "done"]
                       /\ resp' = Response(r.op, id, IF r.op = "verify" THEN 500 ELSE 200,
                                           r.log \o <<"error.logged">>)
                       /\ UNCHANGED <<bookings, slotStatus, cache, expiry>>
                  ELSE /\ cache' = redisDel
                       /\ expiry' = redisDelExpiry
                       /\ req' = [req EXCEPT ![p].log = r.log \o delEffects, ![p].pc = pc]
                       /\ resp' = IF Len(log) = Len(steps)
                                    THEN Response(r.op, id, 200, r.log \o delEffects)
                                    ELSE resp
                       /\ UNCHANGED <<bookings, slotStatus>>
  /\ UNCHANGED <<parking, redis, nextOrder, now>>

(* the events the switch dispatches to a handler *)
HandledEvents == {"payment.captured", "payment.failed", "refund.processed"}

webhook(body, signature) ==
  /\ IF Hmac(WebhookSecret, body) # signature
       THEN /\ resp' = Response("webhook", NoId, 400, <<>>)
            /\ UNCHANGED <<bookings, slotStatus, cache, expiry>>
     ELSE IF body.event \in HandledEvents /\ "entity" \notin DOMAIN body
       THEN \* payload.payment / payload.refund is undefined: the TypeError is
            \* thrown outside the handlers' try blocks and goes to next()
            /\ resp' = Response(body.event, NoId, 500, <<>>)
            /\ UNCHANGED <<bookings, slotStatus, cache, expiry>>
     ELSE IF body.event = "payment.captured" THEN handleSuccessfulPayment(body.entity)
     ELSE IF body.event = "payment.failed" THEN handleFailedPayment(body.entity)
     ELSE IF body.event = "refund.processed" THEN handleRefund(body.entity)
     ELSE /\ resp' = Response(body.event, NoId, 200, <<>>)
          /\ UNCHANGED <<bookings, slotStatus, cache, expiry>>
  /\ UNCHANGED <<redis, nextOrder, now, req, parking>>

----------------------------------------------------------------------------
(* payment.routes.js *)

(* the login middleware: lets a request through when it carries a valid token *)
protect(authenticated) == authenticated

(* POST /payments/webhook through the router: router.use(protect) is         *)
(* registered before the route, so it runs first                             *)
routeWebhook(authenticated, body, signature) ==
  IF ~protect(authenticated)
    THEN /\ resp' = Response("protect", NoId, 401, <<>>)
         /\ UNCHANGED <<bookings, slotStatus, parking, cache, expiry, redis, nextOrder, now, req>>
    ELSE webhook(body, signature)

----------------------------------------------------------------------------
(* admin controller *)

(* updateBooking without the refund branch *)
updateBookingNoRefund(id, status) ==
  /\ IF ~Exists(id)
       THEN /\ resp' = Response("admin.update", id, 404, <<>>)
            /\ UNCHANGED bookings
     ELSE IF status \notin BookingStatusEnum
       THEN /\ resp' = Response("admin.update", id, 500, <<>>)
            /\ UNCHANGED bookings
     ELSE /\ bookings' = [bookings EXCEPT ![id].status = status]
          /\ resp' = Response("admin.update", id, 200, <<"booking.save">>)
  /\ UNCHANGED <<slotStatus, cache, expiry, redis, nextOrder, now, req, parking>>

updateBooking(id, status) ==
  /\ IF ~Exists(id)
       THEN /\ resp' = Response("admin.update", id, 404, <<>>)
            /\ UNCHANGED bookings
     ELSE IF status \notin BookingStatusEnum
       THEN \* booking.save() rejects the document: enum validator on status
            /\ resp' = Response("admin.update", id, 500, <<>>)
            /\ UNCHANGED bookings
     ELSE /\ bookings' = [bookings EXCEPT
                 ![id].status = status,
                 ![id].payment.refundStatus =
                     IF status = "cancelled" /\ bookings[id].payment.status = "completed"
                       THEN "pending" ELSE @]
          /\ resp' = Response("admin.update", id, 200, <<"booking.save">>)
  /\ UNCHANGED <<slotStatus, cache, expiry, redis, nextOrder, now, req, parking>>

----------------------------------------------------------------------------
(* parking model and parking controller *)

(* pre('save'): the counter the document is saved with *)
preSave(statuses) ==
  Cardinality({ s \in Slots : statuses[s] = "available" \/ statuses[s] = "reserved" })

(* the $filter of the calcAvailableSlots aggregation *)
calcFilter(statuses) ==
  Cardinality({ s \in Slots : statuses[s] = "available" })

(* a facility document as Parking.create saves it: the pre-save hook has run, *)
(* the post-save hook has been called and not awaited                        *)
NewParking(statuses) ==
  [availableSlots |-> preSave(statuses), isActive |-> TRUE, postSave |-> TRUE]

(* Parking.findById under pre(/^find/): the filter isActive # false is added *)
(* to every find, so the result holds the facility only while it is active   *)
findById == IF parking.isActive # FALSE THEN {parking} ELSE {}

(* GET /parkings/:id *)
getParking ==
  /\ resp' = IF findById = {} THEN Response("parking.get", NoId, 404, <<>>)
             ELSE IF redis = "uninit" THEN Response("parking.get", NoId, 500, <<>>)
             ELSE Response("parking.get", NoId, 200, <<"cache.get">>)
  /\ UNCHANGED <<bookings, slotStatus, parking, cache, expiry, redis, nextOrder, now, req>>

(* post('save'): the aggregation carries $match isActive # false, so it      *)
(* finds nothing for a soft-deleted facility and the counter is left alone   *)
calcAvailableSlots ==
  /\ parking.postSave
  /\ parking' = [parking EXCEPT
        !.postSave = FALSE,
        !.availableSlots = IF parking.isActive THEN calcFilter(slotStatus) ELSE @]
  /\ UNCHANGED <<bookings, slotStatus, cache, expiry, redis, nextOrder, now, req, resp>>

(* PATCH with the slots' statuses in the body: findByIdAndUpdate runs no     *)
(* save hook; getRedisClient throws when the client was never connected      *)
updateParking(statuses) ==
  /\ IF ~parking.isActive
       THEN /\ resp' = Response("parking.update", NoId, 404, <<>>)
            /\ UNCHANGED <<slotStatus, cache, expiry>>
     ELSE /\ slotStatus' = statuses
          /\ IF redis = "uninit"
               THEN /\ UNCHANGED <<cache, expiry>>
                    /\ resp' = Response("parking.update", NoId, 500, <<"parking.update">>)
               ELSE /\ cache' = redisDel
                    /\ expiry' = redisDelExpiry
                    /\ resp' = Response("parking.update", NoId, 200, <<"parking.update">> \o delEffects)
  /\ UNCHANGED <<bookings, parking, redis, nextOrder, now, req>>

(* soft delete: isActive = false, then parking.save() with its hooks *)
deleteParking ==
  /\ IF ~parking.isActive
       THEN /\ resp' = Response("parking.delete", NoId, 404, <<>>)
            /\ UNCHANGED <<parking, cache, expiry>>
     ELSE /\ parking' = [availableSlots |-> preSave(slotStatus), isActive |-> FALSE,
                         postSave |-> TRUE]
          /\ IF redis = "uninit"
               THEN /\ UNCHANGED <<cache, expiry>>
                    /\ resp' = Response("parking.delete", NoId, 500, <<"parking.save">>)
               ELSE /\ cache' = redisDel
                    /\ expiry' = redisDelExpiry
                    /\ resp' = Response("parking.delete", NoId, 204, <<"parking.save">> \o delEffects)
  /\ UNCHANGED <<bookings, slotStatus, redis, nextOrder, now, req>>

----------------------------------------------------------------------------
(* socket.js *)

updateParkingAvailability ==
  /\ IF redis = "uninit"
       THEN UNCHANGED <<cache, expiry>> /\ resp' = Response("availability", NoId, 0, <<"error.logged">>)
     ELSE IF redis = "failing"
       THEN UNCHANGED <<cache, expiry>> /\ resp' = Response("availability", NoId, 0, <<"error.logged">>)
     ELSE /\ cache' = countAvailable(slotStatus)
          /\ expiry' = expiryOf(setOptions)
          /\ resp' = Response("availability", NoId, 0, <<"cache.set", "emit">>)
  /\ UNCHANGED <<bookings, slotStatus, redis, nextOrder, now, req, parking>>

----------------------------------------------------------------------------
(* booking controller: create and cancel *)

(* SlotLedger.release: the slot's status once the booking left the active set *)
release(coll, slotId) ==
  IF ActiveOn(coll, slotId) = {} /\ slotStatus[slotId] = "reserved"
    THEN "available" ELSE slotStatus[slotId]

(* persist a pending booking, mark its slot reserved and recompute the      *)
(* facility's counter                                                       *)
insertBooking(slotId, startTime, endTime) ==
  /\ bookings' = Append(bookings, NewBooking(slotId, startTime, endTime))
  /\ slotStatus' = [slotStatus EXCEPT ![slotId] = "reserved"]
  /\ parking' = [parking EXCEPT !.availableSlots = countAvailable(slotStatus')]
  /\ cache' = redisDel
  /\ expiry' = redisDelExpiry

(* the availability check and the insert as one request, run to completion *)
createBooking(slotId, startTime, endTime) ==
  /\ IF ~endTimeValidator(startTime, endTime)
       THEN /\ resp' = Response("create", NoId, 400, <<"ValidationError">>)
            /\ UNCHANGED <<bookings, slotStatus, parking, cache, expiry>>
     ELSE IF ~isSlotAvailable(slotId, startTime, endTime, NoId)
       THEN /\ resp' = Response("create", NoId, 400, <<"SlotUnavailable">>)
            /\ UNCHANGED <<bookings, slotStatus, parking, cache, expiry>>
     ELSE /\ insertBooking(slotId, startTime, endTime)
          /\ resp' = Response("create", Len(bookings) + 1, 201, <<"booking.save", "slot.update">>)
  /\ UNCHANGED <<redis, nextOrder, now, req>>

(* a create request up to the answer of its availability check *)
checkSlot(p, slotId, startTime, endTime) ==
  /\ req[p].pc = "idle"
  /\ req' = [req EXCEPT ![p] =
       IF ~endTimeValidator(startTime, endTime)
         THEN [Idle EXCEPT !.pc = "done", !.slot = slotId, !.startTime = startTime,
                           !.endTime = endTime, !.code = 400]
         ELSE [Idle EXCEPT !.pc = "checked", !.slot = slotId, !.startTime = startTime,
                           !.endTime = endTime,
                           !.avail = isSlotAvailable(slotId, startTime, endTime, NoId)]]
  /\ UNCHANGED <<bookings, slotStatus, cache, expiry, redis, nextOrder, now, resp, parking>>

(* the rest of the request: the insert, or the SlotUnavailable answer *)
persistBooking(p) ==
  /\ req[p].pc = "checked"
  /\ IF req[p].avail
       THEN /\ insertBooking(req[p].slot, req[p].startTime, req[p].endTime)
            /\ req' = [req EXCEPT ![p].pc = "done", ![p].code = 201]
            /\ resp' = Response("create", Len(bookings) + 1, 201, <<"booking.save", "slot.update">>)
       ELSE /\ req' = [req EXCEPT ![p].pc = "done", ![p].code = 400]
            /\ resp' = Response("create", NoId, 400, <<"SlotUnavailable">>)
            /\ UNCHANGED <<bookings, slotStatus, parking, cache, expiry>>
  /\ UNCHANGED <<redis, nextOrder, now>>

cancelBooking(id) ==
  /\ IF ~Exists(id)
       THEN /\ resp' = Response("cancel", id, 404, <<>>)
            /\ UNCHANGED <<bookings, slotStatus, parking, cache, expiry>>
     ELSE IF ~canBeCancelled(bookings[id])
       THEN /\ resp' = Response("cancel", id, 400, <<"CancellationWindowClosed">>)
            /\ UNCHANGED <<bookings, slotStatus, parking, cache, expiry>>
     ELSE LET after == [bookings EXCEPT
                          ![id].status = "cancelled",
                          ![id].payment.refundStatus =
                              IF bookings[id].payment.status = "completed" THEN "pending" ELSE @]
          IN  /\ bookings' = after
              /\ slotStatus' = [slotStatus EXCEPT ![bookings[id].slot] = release(after, bookings[id].slot)]
              /\ parking' = [parking EXCEPT !.availableSlots = countAvailable(slotStatus')]
              /\ cache' = redisDel
              /\ expiry' = redisDelExpiry
              /\ resp' = Response("cancel", id, 200, <<"booking.save", "slot.update">>)
  /\ UNCHANGED <<redis, nextOrder, now, req>>

(* the clock; the cache drops an entry whose lifetime is over *)
Tick ==
  /\ now < MaxTime
  /\ now' = now + 1
  /\ IF cache # NoEntry /\ expiry # NoExpiry /\ expiry <= UnitSeconds
       THEN cache' = NoEntry /\ expiry' = NoExpiry
       ELSE UNCHANGED <<cache, expiry>>
  /\ UNCHANGED <<bookings, slotStatus, redis, nextOrder, req, resp, parking>>

(* the connection to the cache drops, and comes back *)
connectionLost ==
  /\ redis = "ok"
  /\ redis' = "failing"
  /\ UNCHANGED <<bookings, slotStatus, parking, cache, expiry, nextOrder, now, req, resp>>

connectionRestored ==
  /\ redis = "failing"
  /\ redis' = "ok"
  /\ UNCHANGED <<bookings, slotStatus, parking, cache, expiry, nextOrder, now, req, resp>>

----------------------------------------------------------------------------
(* Requests *)

PaymentEntities ==
  [id : PaymentIds, order_id : OrderIds, created_at : 0..now, error_description : ErrorDescriptions]

RefundEntities ==
  [id : {1}, payment_id : PaymentIds, status : {"processed"}, created_at : 0..now]

Events == {"payment.captured", "payment.failed", "refund.processed", "order.paid"}

Body(event, entity) == [event |-> event, entity |-> entity]

Create ==
  /\ Len(bookings) < MaxBookings
  /\ \E slotId \in Slots, startTime \in Times, endTime \in Times :
       createBooking(slotId, startTime, endTime)

(* bookings of whole hours, as the payment flows need them *)
HourWindows == { w \in Times \X Times : w[2] = w[1] + Hour }

CreateHourly(limit) ==
  /\ Len(bookings) < limit
  /\ \E slotId \in Slots, w \in HourWindows : createBooking(slotId, w[1], w[2])

Cancel == \E id \in BookingIds : cancelBooking(id)

(* bookings of one hour that start up to two hours from the first instant *)
LaterWindows == { <<s, s + Hour>> : s \in 0..MaxStart }

CreateLater ==
  /\ Len(bookings) < MaxPaid
  /\ \E slotId \in Slots, w \in LaterWindows : createBooking(slotId, w[1], w[2])

CreateOrder ==
  \E id \in BookingIds, authorized \in BOOLEAN, gatewayOk \in BOOLEAN, saved \in SaveOutcomes :
    /\ gatewayOk => nextOrder <= MaxOrders
    /\ createPaymentOrder(id, authorized, gatewayOk, saved)

(* the signatures a client may submit: made with either secret, over any     *)
(* order id and payment id                                                   *)
Signatures ==
  { Hmac(secret, <<orderId, paymentId>>) :
      secret \in Secrets, orderId \in OrderIds, paymentId \in PaymentIds }

Verify ==
  \E id \in BookingIds, orderId \in OrderIds, paymentId \in PaymentIds,
     secret \in Secrets, authorized \in BOOLEAN :
    verifyPayment(id, orderId, paymentId, Hmac(secret, <<orderId, paymentId>>), authorized)

(* verify with any of the signatures *)
VerifyAny ==
  \E id \in BookingIds, orderId \in OrderIds, paymentId \in PaymentIds,
     signature \in Signatures, authorized \in BOOLEAN :
    verifyPayment(id, orderId, paymentId, signature, authorized)

(* verify calls by the booking's user with a signature the gateway issued *)
VerifySigned ==
  \E id \in BookingIds, orderId \in OrderIds, paymentId \in PaymentIds :
    verifyPayment(id, orderId, paymentId, Hmac(KeySecret, <<orderId, paymentId>>), TRUE)

WebhookPayment ==
  \E event \in Events \ {"refund.processed"}, entity \in PaymentEntities, secret \in Secrets :
    webhook(Body(event, entity), Hmac(secret, Body(event, entity)))

WebhookRefund ==
  \E entity \in RefundEntities, secret \in Secrets :
    webhook(Body("refund.processed", entity), Hmac(secret, Body("refund.processed", entity)))

(* a webhook body whose payload has no payment or refund object *)
BareBody(event) == [event |-> event]

WebhookBare ==
  \E event \in Events, secret \in Secrets :
    webhook(BareBody(event), Hmac(secret, BareBody(event)))

(* webhook deliveries as the router receives them, with and without a login *)
RouteWebhook ==
  \E authenticated \in BOOLEAN, event \in Events \ {"refund.processed"},
     entity \in PaymentEntities, secret \in Secrets :
    routeWebhook(authenticated, Body(event, entity), Hmac(secret, Body(event, entity)))

AdminUpdate == \E id \in BookingIds, status \in RequestedStatuses : updateBooking(id, status)

Refresh == updateParkingAvailability

(* updateParkingAvailability up to its read: the client is obtained and the  *)
(* facility's slots are read and counted                                     *)
refreshRead(p) ==
  /\ req[p].pc = "idle"
  /\ IF redis = "ok"
       THEN /\ req' = [req EXCEPT ![p] =
                 [Idle EXCEPT !.pc = "refreshing", !.op = "availability",
                              !.avail = countAvailable(slotStatus)]]
            /\ UNCHANGED resp
       ELSE /\ req' = [req EXCEPT ![p] = [Idle EXCEPT !.pc = "done", !.op = "availability"]]
            /\ resp' = Response("availability", NoId, 0, <<"error.logged">>)
  /\ UNCHANGED <<bookings, slotStatus, parking, cache, expiry, redis, nextOrder, now>>

(* updateParkingAvailability from its write on: the count that was read is   *)
(* stored under the key, then emitted                                        *)
refreshSet(p) ==
  /\ req[p].pc = "refreshing"
  /\ IF redis = "ok"
       THEN /\ cache' = req[p].avail
            /\ expiry' = expiryOf(setOptions)
            /\ resp' = Response("availability", NoId, 0, <<"cache.set", "emit">>)
       ELSE /\ UNCHANGED <<cache, expiry>>
            /\ resp' = Response("availability", NoId, 0, <<"error.logged">>)
  /\ req' = [req EXCEPT ![p].pc = "done"]
  /\ UNCHANGED <<bookings, slotStatus, parking, redis, nextOrder, now>>

RefreshRead == refreshRead(2)

RefreshSet == refreshSet(2)

(* the payment of a booking that awaits it *)
PayPending ==
  \E id \in DOMAIN bookings :
    /\ bookings[id].status = "pending"
    /\ verifyPayment(id, 1, 1, Hmac(KeySecret, <<1, 1>>), TRUE)

UpdateParking == \E statuses \in [Slots -> SlotStatusEnum] : updateParking(statuses)

(* a facility update while no request is being handled *)
UpdateParkingBefore ==
  /\ \A p \in Procs : req[p].pc = "idle"
  /\ UpdateParking

DeleteParking == deleteParking

GetParking == getParking

CalcAvailableSlots == calcAvailableSlots

(* payment transitions in flight, their awaits interleaved with the other   *)
(* handlers                                                                 *)
AcceptPayment ==
  \E op \in {"verify", "payment.captured"}, id \in BookingIds, orderId \in OrderIds :
    acceptPayment(1, op, id, orderId, 1)

(* an order created and stored on the booking *)
OrderKept ==
  \E id \in BookingIds :
    /\ nextOrder <= MaxOrders
    /\ createPaymentOrder(id, TRUE, TRUE, "kept")

PaymentStep == \E p \in Procs : paymentStep(p)

(* the first order of a booking *)
FirstOrder ==
  \E id \in DOMAIN bookings :
    /\ bookings[id].payment.orderId = NoId
    /\ nextOrder <= MaxOrders
    /\ createPaymentOrder(id, TRUE, TRUE, "kept")

(* verify by the client and payment.captured by the gateway, for the same    *)
(* order of a booking and the same payment                                   *)
ConfirmBothPaths ==
  \E p \in Procs, id \in DOMAIN bookings :
    /\ bookings[id].payment.orderId # NoId
    /\ acceptPayment(p, IF p = 1 THEN "verify" ELSE "payment.captured",
                     id, bookings[id].payment.orderId, 1)

(* two create requests, their steps interleaved *)
CheckSlot ==
  \E p \in Procs, slotId \in Slots, startTime \in Times, endTime \in Times :
    checkSlot(p, slotId, startTime, endTime)

PersistBooking == \E p \in Procs : persistBooking(p)

----------------------------------------------------------------------------
(* Specifications *)

Init ==
  /\ bookings = <<>>
  /\ slotStatus = [s \in Slots |-> "available"]
  /\ parking = [NewParking([s \in Slots |-> "available"]) EXCEPT !.postSave = FALSE]
  /\ cache = NoEntry
  /\ expiry = NoExpiry
  /\ redis \in {"ok", "failing", "uninit"}
  /\ nextOrder = 1
  /\ now = 0
  /\ req = [p \in Procs |-> Idle]
  /\ resp = Response("none", NoId, 0, <<>>)

(* every handler, each request run to completion *)
Next ==
  \/ CreateHourly(MaxPaid)
  \/ CreateOrder
  \/ Verify
  \/ WebhookPayment
  \/ WebhookRefund
  \/ AdminUpdate
  \/ Refresh

Spec == Init /\ [][Next]_vars

(* the cache client connected *)
InitConnected == Init /\ redis = "ok"

(* create, payment of a pending booking and cancel *)
NextBooking ==
  \/ Create
  \/ PayPending
  \/ Cancel

SpecBooking == InitConnected /\ [][NextBooking]_vars

(* concurrent create requests *)
NextRace ==
  \/ CheckSlot
  \/ PersistBooking

SpecRace == Init /\ [][NextRace]_vars

(* bookings of every status, for the availability query *)
NextAvail ==
  \/ CreateHourly(MaxBookings)
  \/ AdminUpdate

SpecAvail == InitConnected /\ [][NextAvail]_vars

(* verify calls with every signature, on bookings awaiting payment or paid *)
NextVerify ==
  \/ CreateHourly(MaxPaid)
  \/ VerifyAny
  \/ Refresh

SpecVerify == Init /\ [][NextVerify]_vars

(* webhook deliveries of every kind, for bookings with and without an order *)
NextWebhook ==
  \/ CreateHourly(MaxPaid)
  \/ CreateOrder
  \/ WebhookPayment
  \/ WebhookRefund
  \/ WebhookBare

SpecWebhook == Init /\ [][NextWebhook]_vars

(* a booking of every status, the clock running, and cancel requests *)
NextCancel ==
  \/ CreateLater
  \/ PayPending
  \/ AdminUpdate
  \/ Cancel
  \/ Tick

SpecCancel == InitConnected /\ [][NextCancel]_vars

(* a facility just created with slots of any status, its owner's updates,   *)
(* its soft delete, and a booking made and paid on it                        *)
InitParking ==
  /\ bookings = <<>>
  /\ slotStatus \in [Slots -> SlotStatusEnum]
  /\ parking = NewParking(slotStatus)
  /\ cache = NoEntry
  /\ expiry = NoExpiry
  /\ redis \in {"ok", "failing", "uninit"}
  /\ nextOrder = 1
  /\ now = 0
  /\ req = [p \in Procs |-> Idle]
  /\ resp = Response("none", NoId, 0, <<>>)

NextParking ==
  \/ CalcAvailableSlots
  \/ UpdateParking
  \/ DeleteParking
  \/ GetParking
  \/ CreateHourly(MaxPaid)
  \/ PayPending

SpecParking == InitParking /\ [][NextParking]_vars

(* payment transitions step by step, beside the owner's slot updates and    *)
(* the readers that fill the cache                                          *)
NextOrder ==
  \/ CreateHourly(MaxPaid)
  \/ OrderKept
  \/ AcceptPayment
  \/ PaymentStep
  \/ UpdateParking
  \/ Refresh

SpecOrder == Init /\ [][NextOrder]_vars

(* snapshots written to the cache, invalidations lost while the connection  *)
(* is down, and the clock                                                   *)
NextExpiry ==
  \/ CreateHourly(MaxPaid)
  \/ PayPending
  \/ UpdateParking
  \/ Refresh
  \/ connectionLost
  \/ connectionRestored
  \/ Tick

SpecExpiry == InitConnected /\ [][NextExpiry]_vars

(* webhook deliveries through the router *)
NextRoute ==
  \/ CreateHourly(MaxPaid)
  \/ OrderKept
  \/ RouteWebhook

SpecRoute == Init /\ [][NextRoute]_vars

(* two bookings with their orders, and verify calls with gateway-signed pairs *)
NextBinding ==
  \/ CreateHourly(MaxBookings)
  \/ OrderKept
  \/ VerifySigned

SpecBinding == InitConnected /\ [][NextBinding]_vars

(* one booking and its order, confirmed by both paths at once *)
NextConfirm ==
  \/ CreateHourly(MaxPaid)
  \/ FirstOrder
  \/ ConfirmBothPaths
  \/ PaymentStep

SpecConfirm == Init /\ [][NextConfirm]_vars

(* a refresh, await by await, beside a payment transition *)
NextStale ==
  \/ CreateHourly(MaxPaid)
  \/ OrderKept
  \/ UpdateParkingBefore
  \/ AcceptPayment
  \/ PaymentStep
  \/ RefreshRead
  \/ RefreshSet

SpecStale == InitConnected /\ [][NextStale]_vars

(* orders issued again and again for a booking, and the gateway's events *)
NextReorder ==
  \/ CreateHourly(MaxPaid)
  \/ OrderKept
  \/ WebhookPayment

SpecReorder == Init /\ [][NextReorder]_vars

----------------------------------------------------------------------------
(* Properties *)

Active(i) == bookings[i].status \in {"pending", "confirmed"}

Overlap(s1, e1, s2, e2) == s1 < e2 /\ s2 < e1

Overlapping(i, j) ==
  /\ bookings[i].slot = bookings[j].slot
  /\ Overlap(bookings[i].startTime, bookings[i].endTime,
             bookings[j].startTime, bookings[j].endTime)

(* C1: on every slot the pending or confirmed bookings have pairwise         *)
(* non-overlapping half-open intervals, after any sequence of create and     *)
(* cancel requests each run to completion.                                   *)
OverlapExclusion ==
  \A i, j \in DOMAIN bookings :
    (i # j /\ Active(i) /\ Active(j)) => ~Overlapping(i, j)

(* a cancelled booking whose window was booked again *)
RebookedAfterCancel ==
  \E i, j \in DOMAIN bookings :
    /\ bookings[i].status = "cancelled"
    /\ Active(j)
    /\ Overlapping(i, j)

AvailableIffNoActiveOverlap ==
  \A slotId \in Slots, startTime \in Times, endTime \in Times,
     bookingId \in {NoId} \cup BookingIds :
    isSlotAvailable(slotId, startTime, endTime, bookingId) =
      ~ \E i \in DOMAIN bookings :
          /\ i # bookingId
          /\ bookings[i].slot = slotId
          /\ Active(i)
          /\ bookings[i].startTime < endTime
          /\ startTime < bookings[i].endTime

(* a slot with an active booking whose own window is taken, whose touching   *)
(* window is free, and with an inactive booking that blocks nothing          *)
TouchingWindowFree ==
  \E i, j \in DOMAIN bookings :
    /\ Active(i)
    /\ ~Active(j)
    /\ bookings[j].slot = bookings[i].slot
    /\ bookings[j].startTime = bookings[i].endTime
    /\ ~isSlotAvailable(bookings[i].slot, bookings[i].startTime, bookings[i].endTime, NoId)
    /\ isSlotAvailable(bookings[i].slot, bookings[i].startTime, bookings[i].endTime, i)
    /\ isSlotAvailable(bookings[i].slot, bookings[j].startTime, bookings[j].endTime, NoId)

Terminal == {"completed", "cancelled", "refunded", "no-show"}

(* the transitions of the booking lifecycle *)
LifecycleGraph ==
  { <<"pending", "confirmed">>, <<"confirmed", "completed">>,
    <<"pending", "cancelled">>, <<"confirmed", "cancelled">>,
    <<"confirmed", "refunded">>, <<"confirmed", "no-show">> }

ValidWebhook(event, entity) ==
  webhook(Body(event, entity), Hmac(WebhookSecret, Body(event, entity)))

(* C4: verify repeated for a booking already confirmed with the same payment *)
(* id is a no-op: it answers 200 with the current booking and writes nothing *)
(* - no booking save, no slot update, no other side effect.                  *)
VerifyRetryIsNoOp ==
  [][ \A id \in BookingIds, orderId \in OrderIds, paymentId \in PaymentIds :
        ( /\ Exists(id)
          /\ bookings[id].status = "confirmed"
          /\ bookings[id].payment.paymentId = paymentId
          /\ verifyPayment(id, orderId, paymentId, Hmac(KeySecret, <<orderId, paymentId>>), TRUE) )
        => ( /\ bookings' = bookings
             /\ slotStatus' = slotStatus
             /\ UNCHANGED <<cache, expiry>>
             /\ resp'.code = 200
             /\ resp'.effects = <<>> ) ]_vars

(* C5: a payment.captured webhook delivered again, for a booking that is     *)
(* already confirmed or completed with that payment, changes no booking      *)
(* field and no slot state.                                                  *)
CapturedReplayIsNoOp ==
  [][ \A entity \in PaymentEntities :
        LET id == findByOrderId(entity.order_id)
        IN  ( /\ id # NoId
              /\ bookings[id].status \in {"confirmed", "completed"}
              /\ bookings[id].payment.paymentId = entity.id
              /\ bookings[id].payment.paidAt = entity.created_at
              /\ ValidWebhook("payment.captured", entity) )
            => (bookings' = bookings /\ slotStatus' = slotStatus) ]_vars

(* C6: a booking in a terminal status keeps that status under every verify   *)
(* call and every webhook delivery.                                          *)
TerminalStaysTerminal ==
  [][ (Verify \/ WebhookPayment \/ WebhookRefund)
        => \A id \in DOMAIN bookings :
             bookings[id].status \in Terminal => bookings'[id].status = bookings[id].status ]_vars

(* C7: a booking whose payment.status is completed has status confirmed or   *)
(* completed.                                                                *)
PaidImpliesConfirmed ==
  \A id \in DOMAIN bookings :
    bookings[id].payment.status = "completed" => bookings[id].status \in {"confirmed", "completed"}

(* C8: a slot that is neither occupied nor under maintenance is reserved     *)
(* exactly when a pending or confirmed booking holds it, and available       *)
(* exactly when none does.                                                   *)
SlotStatusMatchesActiveSet ==
  \A slotId \in Slots :
    slotStatus[slotId] \notin {"occupied", "maintenance"} =>
      /\ (slotStatus[slotId] = "reserved") = (ActiveOn(bookings, slotId) # {})
      /\ (slotStatus[slotId] = "available") = (ActiveOn(bookings, slotId) = {})

(* C9: refund.processed for a confirmed booking with a completed payment     *)
(* leaves the booking refunded, its payment refunded, and the booking out of *)
(* its slot's active set.                                                    *)
RefundReleasesBooking ==
  [][ \A entity \in RefundEntities :
        LET id == findByPaymentId(entity.payment_id)
        IN  ( /\ id # NoId
              /\ bookings[id].status = "confirmed"
              /\ bookings[id].payment.status = "completed"
              /\ ValidWebhook("refund.processed", entity) )
            => ( /\ bookings'[id].status = "refunded"
                 /\ bookings'[id].payment.status = "refunded"
                 /\ id \notin ActiveOn(bookings', bookings[id].slot) ) ]_vars

(* C10: payment.failed changes a booking only if it is pending; delivered    *)
(* for a confirmed or completed booking it leaves booking.status and         *)
(* payment.status as they were.                                              *)
FailedOnlyCancelsPending ==
  [][ \A entity \in PaymentEntities :
        LET id == findByOrderId(entity.order_id)
        IN  ( /\ id # NoId
              /\ bookings[id].status # "pending"
              /\ ValidWebhook("payment.failed", entity) )
            => ( /\ bookings'[id].status = bookings[id].status
                 /\ bookings'[id].payment.status = bookings[id].payment.status ) ]_vars

(* C11: payment.failed for a pending booking cancels it, records the failure *)
(* reason and releases the slot: the slot is available again when no other   *)
(* pending or confirmed booking holds it.                                    *)
FailedReleasesSlot ==
  [][ \A entity \in PaymentEntities :
        LET id == findByOrderId(entity.order_id)
        IN  ( /\ id # NoId
              /\ bookings[id].status = "pending"
              /\ ValidWebhook("payment.failed", entity) )
            => ( /\ bookings'[id].status = "cancelled"
                 /\ bookings'[id].payment.error # ""
                 /\ ( ActiveOn(bookings', bookings[id].slot) = {}
                        => slotStatus'[bookings[id].slot] = "available" ) ) ]_vars

(* C12: verify with a signature that is not the HMAC of orderId|paymentId    *)
(* under the key secret changes nothing - booking, slot and cache entry stay *)
(* as they were - and answers 400 to the booking's authorized user.          *)
InvalidSignatureRejected ==
  [][ \A id \in BookingIds, orderId \in OrderIds, paymentId \in PaymentIds,
         secret \in Secrets, o \in OrderIds, p \in PaymentIds, authorized \in BOOLEAN :
        ( /\ (secret # KeySecret \/ <<o, p>> # <<orderId, paymentId>>)
          /\ verifyPayment(id, orderId, paymentId, Hmac(secret, <<o, p>>), authorized) )
        => ( /\ bookings' = bookings
             /\ slotStatus' = slotStatus
             /\ UNCHANGED <<cache, expiry>>
             /\ (Exists(id) /\ authorized => resp'.code = 400) ) ]_vars

(* a verify call refused for its signature while the booking awaits payment  *)
(* and a cache entry exists                                                  *)
VerifyRefused ==
  /\ resp.op = "verify"
  /\ resp.code = 400
  /\ Exists(resp.id)
  /\ bookings[resp.id].status = "pending"
  /\ cache # NoEntry

CreateOrderNeedsUnpaidPending ==
  [][ \A id \in BookingIds, authorized \in BOOLEAN, gatewayOk \in BOOLEAN, saved \in SaveOutcomes :
        ( /\ Exists(id)
          /\ ~(bookings[id].status = "pending" /\ bookings[id].payment.status # "completed")
          /\ createPaymentOrder(id, authorized, gatewayOk, saved) )
        => ( /\ bookings' = bookings
             /\ nextOrder' = nextOrder
             /\ resp'.code # 200 ) ]_vars

(* C15: after a successful createOrder the stored booking carries the order  *)
(* id the gateway returned, and that order id locates exactly this booking.  *)
OrderIdPersisted ==
  [][ \A id \in BookingIds, gatewayOk \in BOOLEAN, saved \in SaveOutcomes :
        ( /\ Exists(id)
          /\ createPaymentOrder(id, TRUE, gatewayOk, saved)
          /\ resp'.code = 200 )
        => ( /\ bookings'[id].payment.orderId = nextOrder
             /\ \A j \in DOMAIN bookings' :
                  bookings'[j].payment.orderId = nextOrder => j = id ) ]_vars

(* C16: a webhook request whose signature does not verify is answered 401    *)
(* and dispatches no handler: no booking, slot or cache entry changes.       *)
BadWebhookSignatureIs401 ==
  [][ \A event \in Events, entity \in PaymentEntities :
        webhook(Body(event, entity), Hmac(KeySecret, Body(event, entity)))
        => ( /\ bookings' = bookings
             /\ slotStatus' = slotStatus
             /\ UNCHANGED <<cache, expiry>>
             /\ resp'.code = 401 ) ]_vars

(* C17: a webhook request whose signature verifies is answered 200, whatever *)
(* the event and whatever happens while it is handled - no booking found, a  *)
(* storage or cache error, a payload without the payment or refund entity.   *)
SignedWebhookIs200 ==
  [][ /\ \A event \in Events, entity \in PaymentEntities :
           ValidWebhook(event, entity) => resp'.code = 200
      /\ \A entity \in RefundEntities :
           ValidWebhook("refund.processed", entity) => resp'.code = 200
      /\ \A event \in Events :
           webhook(BareBody(event), Hmac(WebhookSecret, BareBody(event)))
           => resp'.code = 200 ]_vars

(* C18: a confirmed booking is cancellable exactly when it starts more than  *)
(* one hour from now - not when it starts in 30 minutes or in exactly one    *)
(* hour, and it is when it starts in two hours; a booking in a terminal      *)
(* status is never cancellable.                                              *)
CancelWindow ==
  \A id \in DOMAIN bookings :
    LET b == bookings[id]
        untilStart == b.startTime - now
    IN  /\ b.status = "confirmed" => (canBeCancelled(b) <=> untilStart > Hour)
        /\ (b.status = "confirmed" /\ untilStart = Hour \div 2) => ~canBeCancelled(b)
        /\ (b.status = "confirmed" /\ untilStart = Hour) => ~canBeCancelled(b)
        /\ (b.status = "confirmed" /\ untilStart = 2 * Hour) => canBeCancelled(b)
        /\ b.status \in Terminal => ~canBeCancelled(b)

(* a cancel request refused for a confirmed booking that starts in exactly   *)
(* one hour                                                                  *)
CancelRefusedAtOneHour ==
  /\ resp.op = "cancel"
  /\ resp.code = 400
  /\ Exists(resp.id)
  /\ bookings[resp.id].status = "confirmed"
  /\ bookings[resp.id].startTime - now = Hour

(* C19: a pending booking is cancellable whatever the time left before its   *)
(* start.                                                                    *)
PendingAlwaysCancellable ==
  \A id \in DOMAIN bookings :
    bookings[id].status = "pending" => canBeCancelled(bookings[id])

(* C20: after a successful cancel the booking is cancelled and out of its    *)
(* slot's active set: it no longer blocks a reservation of its window, and   *)
(* the slot is available when no other pending or confirmed booking remains  *)
(* on it.                                                                    *)
CancelReleases ==
  [][ \A id \in BookingIds :
        ( /\ Exists(id)
          /\ cancelBooking(id)
          /\ resp'.code = 200 )
        => ( /\ bookings'[id].status = "cancelled"
             /\ ( id \notin conflictQuery(bookings[id].slot, bookings[id].startTime,
                                          bookings[id].endTime, NoId) )'
             /\ ( isSlotAvailable(bookings[id].slot, bookings[id].startTime,
                                  bookings[id].endTime, NoId) )'
                  = ~ \E j \in DOMAIN bookings :
                        /\ j # id
                        /\ Active(j)
                        /\ Overlapping(id, j)
             /\ ( (\A j \in DOMAIN bookings :
                     (j # id /\ bookings[j].slot = bookings[id].slot) => ~Active(j))
                  => slotStatus'[bookings[id].slot] = "available" )
             /\ ( (\E j \in DOMAIN bookings :
                     j # id /\ bookings[j].slot = bookings[id].slot /\ Active(j))
                  => slotStatus'[bookings[id].slot] = "reserved" ) ) ]_vars

(* a cancel that left the slot reserved for another booking, the cancelled   *)
(* window being free again                                                   *)
CancelledBesideActive ==
  /\ resp.op = "cancel"
  /\ resp.code = 200
  /\ Exists(resp.id)
  /\ bookings[resp.id].status = "cancelled"
  /\ slotStatus[bookings[resp.id].slot] = "reserved"
  /\ isSlotAvailable(bookings[resp.id].slot, bookings[resp.id].startTime,
                     bookings[resp.id].endTime, NoId)

BilledDurationIsCeiling ==
  \A id \in DOMAIN bookings :
    LET b == bookings[id]
        length == b.endTime - b.startTime
    IN  \E h \in 1..MaxTime :
          /\ h * Hour >= length
          /\ (h - 1) * Hour < length
          /\ calculateDuration(b) = h
          /\ b.amount = pricePerHour(b.slot) * h

(* bookings of every kind of length: under one hour, exactly one hour, one   *)
(* hour and a half billed as two                                             *)
BilledLengths ==
  /\ Len(bookings) = MaxBookings
  /\ bookings[1].endTime - bookings[1].startTime = Hour + 1
  /\ bookings[1].amount = pricePerHour(bookings[1].slot) * 2
  /\ bookings[2].endTime - bookings[2].startTime = Hour
  /\ bookings[2].amount = pricePerHour(bookings[2].slot)
  /\ bookings[1].slot # bookings[2].slot

(* C23: a create request whose endTime is not strictly after its startTime   *)
(* is answered with a validation error and changes no booking, slot, cache   *)
(* entry or facility; every persisted booking ends after it starts.          *)
InvalidWindowRejected ==
  [][ /\ \A slotId \in Slots, startTime \in Times, endTime \in Times :
           ( /\ endTime <= startTime
             /\ createBooking(slotId, startTime, endTime) )
           => ( /\ resp'.code = 400
                /\ resp'.effects = <<"ValidationError">>
                /\ UNCHANGED <<bookings, slotStatus, cache, expiry, parking>> )
      /\ \A id \in DOMAIN bookings' :
           bookings'[id].endTime > bookings'[id].startTime ]_vars

(* a create request refused for its window while the slots are free and      *)
(* another booking is already persisted                                      *)
WindowRefused ==
  /\ resp.op = "create"
  /\ resp.code = 400
  /\ resp.effects = <<"ValidationError">>
  /\ Len(bookings) = 1
  /\ \E slotId \in Slots : slotStatus[slotId] = "available"

(* C24: when the post-save hook of a facility's save has run, the stored     *)
(* availableSlots is the number of its slots that are available or reserved. *)
SavedCounterCountsAvailableAndReserved ==
  [][ calcAvailableSlots
      => parking'.availableSlots =
           Cardinality({ s \in Slots : slotStatus'[s] \in {"available", "reserved"} }) ]_vars

(* a step of verify, or of a signed payment.captured or refund.processed      *)
(* delivery, that wrote a slot's status                                      *)
PaymentSlotMutation ==
  /\ \/ \E id \in BookingIds, orderId \in OrderIds, paymentId \in PaymentIds :
          verifyPayment(id, orderId, paymentId, Hmac(KeySecret, <<orderId, paymentId>>), TRUE)
     \/ \E entity \in PaymentEntities :
          webhook(Body("payment.captured", entity),
                  Hmac(WebhookSecret, Body("payment.captured", entity)))
     \/ \E entity \in RefundEntities :
          webhook(Body("refund.processed", entity),
                  Hmac(WebhookSecret, Body("refund.processed", entity)))
  /\ \E i \in DOMAIN resp'.effects : resp'.effects[i] = "slot.update"

(* C25: when verify, payment.captured or refund.processed has written a      *)
(* slot's status, the stored availableSlots is the projection of the current *)
(* slot statuses.                                                            *)
CounterFollowsPaymentMutations ==
  [][ PaymentSlotMutation
      => parking'.availableSlots = countAvailable(slotStatus') ]_vars

(* C26: with the cache client connected, every step that changes a booking's *)
(* status deletes the facility's availability cache entry.                   *)
StatusChangeDeletesCache ==
  [][ ( /\ redis = "ok"
        /\ \E id \in DOMAIN bookings : bookings'[id].status # bookings[id].status )
      => ( /\ cache' = NoEntry
           /\ \E i \in DOMAIN resp'.effects : resp'.effects[i] = "cache.del" ) ]_vars

CacheFailureTolerated ==
  [][ redis # "ok"
      => /\ \A id \in BookingIds, orderId \in OrderIds, paymentId \in PaymentIds :
              ( /\ Exists(id)
                /\ verifyPayment(id, orderId, paymentId,
                                 Hmac(KeySecret, <<orderId, paymentId>>), TRUE) )
              => ( /\ resp'.code = 200
                   /\ bookings'[id].status = "confirmed"
                   /\ slotStatus'[bookings[id].slot] = "reserved" )
         /\ \A entity \in PaymentEntities :
              ( /\ findByOrderId(entity.order_id) # NoId
                /\ webhook(Body("payment.captured", entity),
                           Hmac(WebhookSecret, Body("payment.captured", entity))) )
              => ( /\ resp'.code = 200
                   /\ bookings'[findByOrderId(entity.order_id)].status = "confirmed"
                   /\ slotStatus'[bookings[findByOrderId(entity.order_id)].slot] = "reserved" ) ]_vars

AdminRespectsLifecycle ==
  [][ \A id \in BookingIds, status \in RequestedStatuses :
        ( /\ Exists(id)
          /\ status # bookings[id].status
          /\ updateBooking(id, status) )
        => IF <<bookings[id].status, status>> \in LifecycleGraph
             THEN /\ resp'.code = 200
                  /\ bookings'[id].status = status
             ELSE /\ resp'.code # 200
                  /\ bookings' = bookings ]_vars

SoftDeletedStillFound ==
  [][ /\ ( deleteParking /\ resp'.code = 204 )
         => ( /\ parking'.isActive = FALSE
              /\ \E doc \in findById' : doc.isActive = FALSE )
      /\ ( getParking /\ ~parking.isActive ) => resp'.code # 404 ]_vars

(* C33: a webhook request from a caller that is not logged in reaches the    *)
(* handler: the router's step is the handler's step, signature check first.  *)
WebhookNeedsNoLogin ==
  [][ \A event \in Events \ {"refund.processed"}, entity \in PaymentEntities, secret \in Secrets :
        routeWebhook(FALSE, Body(event, entity), Hmac(secret, Body(event, entity)))
        => /\ webhook(Body(event, entity), Hmac(secret, Body(event, entity)))
           /\ resp'.op # "protect" ]_vars

(* C34: verify confirms a booking only when the submitted order id is the    *)
(* one stored on that booking; a signed pair of another booking's order      *)
(* confirms nothing.                                                         *)
VerifyBoundToStoredOrder ==
  [][ \A id \in BookingIds, orderId \in OrderIds, paymentId \in PaymentIds :
        ( /\ Exists(id)
          /\ bookings[id].status = "pending"
          /\ verifyPayment(id, orderId, paymentId, Hmac(KeySecret, <<orderId, paymentId>>), TRUE)
          /\ bookings'[id].status = "confirmed" )
        => bookings[id].payment.orderId = orderId ]_vars

(* C35: whatever the payment and admin events, the pending or confirmed      *)
(* bookings of a slot never overlap, and no step brings a cancelled booking  *)
(* back while another active booking holds its window.                       *)
ActiveSetExclusiveUnderEvents ==
  [][ /\ \A i, j \in DOMAIN bookings' :
           ( /\ i # j
             /\ bookings'[i].status \in {"pending", "confirmed"}
             /\ bookings'[j].status \in {"pending", "confirmed"} )
           => ~Overlapping(i, j)'
      /\ \A i \in DOMAIN bookings :
           ( /\ bookings[i].status = "cancelled"
             /\ \E j \in DOMAIN bookings : j # i /\ Active(j) /\ Overlapping(i, j) )
           => bookings'[i].status = "cancelled" ]_vars

(* C36: once a booking is confirmed with a payment id, no verify call and no *)
(* payment.captured delivery that carries another payment id changes the     *)
(* stored payment id or the paid-at time.                                    *)
PaymentIdentityKept ==
  [][ \A id \in DOMAIN bookings :
        ( /\ bookings[id].status = "confirmed"
          /\ bookings[id].payment.paymentId # NoId
          /\ \/ \E bookingId \in BookingIds, orderId \in OrderIds, paymentId \in PaymentIds :
                  /\ paymentId # bookings[id].payment.paymentId
                  /\ verifyPayment(bookingId, orderId, paymentId,
                                   Hmac(KeySecret, <<orderId, paymentId>>), TRUE)
             \/ \E entity \in PaymentEntities :
                  /\ entity.id # bookings[id].payment.paymentId
                  /\ webhook(Body("payment.captured", entity),
                             Hmac(WebhookSecret, Body("payment.captured", entity))) )
        => ( /\ bookings'[id].payment.paymentId = bookings[id].payment.paymentId
             /\ bookings'[id].payment.paidAt = bookings[id].payment.paidAt ) ]_vars

CapturedConfirmsEveryIssuedOrder ==
  [][\A entity \in PaymentEntities :
       ( /\ Exists(1)
         /\ ~Exists(2)
         /\ entity.order_id \in 1..(nextOrder - 1)
         /\ bookings[1].status = "pending"
         /\ ValidWebhook("payment.captured", entity) )
       => bookings'[1].status = "confirmed"]_vars

====
